---- MODULE Spec2Model ----
(***************************************************************************)
(* A model of src/app.py, the lotto 6/45 five-game generator: the          *)
(* spreadsheet loader, the frequency table, the three pools, the game      *)
(* generator with its retry loop, the history file and the page script.    *)
(***************************************************************************)
EXTENDS Integers, Sequences, FiniteSets, TLC

VARIABLES
    excel,          \* the spreadsheet beside the application (EXCEL_PATH)
    csv,            \* the history file (CSV_PATH): whether it exists, its content
    win,            \* the loaded table of winning numbers (line 108)
    freq,           \* the frequency table (line 109)
    top6,           \* the three pools (line 110)
    bottom10,
    mid_candidates,
    tie_break,      \* how this build's sort orders equal keys
    save_toggle,    \* the checkbox (line 120)
    games,          \* generate_5_games' local list, then the handler's batch
    now,            \* the handler's timestamp text (line 131)
    ui,             \* the elements the current script run has rendered
    pc,             \* where the script run is
    clock,          \* seconds elapsed, one per generate action
    budget,         \* how far the random draws of one loop iteration range
    procs           \* the process instances inside save_history

vars == <<excel, csv, win, freq, top6, bottom10, mid_candidates, tie_break,
          save_toggle, games, now, ui, pc, clock, budget, procs>>

----------------------------------------------------------------------------
(* Bounds of the model. *)

MaxDraws == 2       \* rows of a spreadsheet
GenDraws == 3       \* sum of the random draws of one iteration, generator runs
AppDraws == 1       \* the same, page runs
MaxRuns == 1        \* generate actions of one page session
NumProcs == 2       \* process instances saving concurrently

(* Program constants. *)

MaxNumber == 45     \* range(1, 46)
GameSize == 6
FixedCount == 2
TopSize == 6
BottomSize == 10
MidSize == 12
TailRows == 50
NA == 0             \* a missing cell of the winning-number table (<NA>)

Numbers == 1..MaxNumber

----------------------------------------------------------------------------
(* Small helpers on sequences. *)

Range(s) == {s[i] : i \in 1..Len(s)}

Min(a, b) == IF a < b THEN a ELSE b

Max(a, b) == IF a > b THEN a ELSE b

RECURSIVE SumSeq(_)
SumSeq(s) == IF s = <<>> THEN 0 ELSE Head(s) + SumSeq(Tail(s))

IsPrefix(s, t) == Len(s) <= Len(t) /\ SubSeq(t, 1, Len(s)) = s

\* the sequence <<F(1), ..., F(n)>>, every entry computed once
Tabulate(n, F(_)) ==
    LET RECURSIVE Go(_)
        Go(i) == IF i > n THEN <<>> ELSE <<F(i)>> \o Go(i + 1)
    IN Go(1)

\* F applied to the value of x, which is computed once however often F
\* uses it
Strict(x, F(_)) == CHOOSE r \in {F(v) : v \in {x}} : TRUE

SelectIdx(s, Keep(_)) ==
    LET RECURSIVE Go(_)
        Go(i) == IF i > Len(s) THEN <<>>
                 ELSE (IF Keep(i) THEN <<s[i]>> ELSE <<>>) \o Go(i + 1)
    IN Go(1)

----------------------------------------------------------------------------
(* The spreadsheet.  A cell is a number or a text that does not parse as   *)
(* one; a column name is a sequence of characters (a Hangul syllable is    *)
(* written as its romanisation).                                           *)

Num(v) == [num |-> TRUE, val |-> v]
Txt == [num |-> FALSE, val |-> 0]

Absent == [exists |-> FALSE, cols |-> <<>>, rows |-> <<>>]

LowerChar(ch) ==
    CASE ch = "B" -> "b"
      [] ch = "N" -> "n"
      [] ch = "S" -> "s"
      [] ch = "O" -> "o"
      [] ch = "U" -> "u"
      [] OTHER -> ch

RECURSIVE StripLeft(_)
StripLeft(s) == IF s # <<>> /\ Head(s) = " " THEN StripLeft(Tail(s)) ELSE s

RECURSIVE StripRight(_)
StripRight(s) ==
    IF s # <<>> /\ s[Len(s)] = " " THEN StripRight(SubSeq(s, 1, Len(s) - 1)) ELSE s

\* str(c).strip().lower()
CName(c) ==
    LET t == StripRight(StripLeft(c))
        Low(i) == LowerChar(t[i])
    IN Tabulate(Len(t), Low)

\* k in cname
Contains(k, s) == \E i \in 1..(Len(s) - Len(k) + 1) : SubSeq(s, i, i + Len(k) - 1) = k

bonus_like == { <<"b", "o", "n", "u", "s">>, <<"bo", "neo", "seu">>, <<"b", "n", "s">> }

\* pd.to_numeric(df[c], errors="coerce").notna().mean() > 0.7
IsNumericColumn(x, c) ==
    LET n == Len(x.rows)
        k == Cardinality({r \in 1..n : x.rows[r][c].num})
    IN n > 0 /\ 10 * k > 7 * n

\* a faulty mask, for comparison: the upper limit of line 50 is left out
MaskedFromOne(cell) ==
    IF cell.num /\ cell.val >= 1 THEN cell.val ELSE NA

\* the cell as Int64, masked to 1..45 by win.where (lines 48 and 50)
Masked(cell) ==
    IF cell.num /\ cell.val >= 1 /\ cell.val <= MaxNumber THEN cell.val ELSE NA

load_winning_numbers(x) ==
    IF ~x.exists THEN [ok |-> FALSE, error |-> "FileNotFoundError", win |-> <<>>]
    ELSE
    LET IsNum(c) == IsNumericColumn(x, c)
        Id(c) == c
        num_cols == SelectIdx(Tabulate(Len(x.cols), Id), IsNum)
        NotBonus(i) == ~\E k \in bonus_like : Contains(k, CName(x.cols[num_cols[i]]))
        filtered == SelectIdx(num_cols, NotBonus)
        cols6 == IF Len(filtered) >= GameSize THEN SubSeq(filtered, 1, GameSize)
                 ELSE SubSeq(num_cols, 1, GameSize)
        WinRow(r) == LET Cell(j) == Masked(x.rows[r][cols6[j]])
                     IN Tabulate(GameSize, Cell)
        w == Tabulate(Len(x.rows), WinRow)
    IN IF Len(num_cols) < GameSize
       THEN [ok |-> FALSE, error |-> "ValueError: fewer than 6 numeric columns", win |-> <<>>]
       ELSE IF \A r \in 1..Len(w) : \A j \in 1..GameSize : w[r][j] = NA
       THEN [ok |-> FALSE, error |-> "ValueError: no number in 1..45", win |-> <<>>]
       ELSE [ok |-> TRUE, error |-> "", win |-> w]

\* stack(dropna=True), value_counts, reindex(range(1, 46), fill_value=0)
calc_frequency(w) ==
    LET Count(n) == Cardinality({rj \in (1..Len(w)) \X (1..GameSize) : w[rj[1]][rj[2]] = n})
    IN Tabulate(MaxNumber, Count)

----------------------------------------------------------------------------
(* The pools.  sort_values is not stable: which of two numbers with equal  *)
(* keys comes first depends on the build, here the lower or the higher.    *)

TieBreaks == {"lower first", "higher first"}

Before(t, m, n) == IF t = "lower first" THEN m < n ELSE m > n

\* sort_values(...).head(k): the first k of the numbers 1..45 in ascending
\* order of key, ties by t; each is the least of those not yet taken
SortedHead(key, t, k) ==
    LET Better(m, n) == key[m] < key[n] \/ (key[m] = key[n] /\ Before(t, m, n))
        RECURSIVE Least(_, _, _)
        Least(i, best, taken) ==
            IF i > MaxNumber THEN best
            ELSE IF i \in taken \/ (best # 0 /\ Better(best, i))
                 THEN Least(i + 1, best, taken)
                 ELSE Least(i + 1, i, taken)
        RECURSIVE Take(_, _)
        Take(j, taken) ==
            IF j > k THEN <<>>
            ELSE LET n == Least(1, 0, taken)
                 IN <<n>> \o Take(j + 1, taken \cup {n})
    IN Take(1, {})

Abs(i) == IF i < 0 THEN -i ELSE i

build_pools(f, t) ==
    LET total == SumSeq(f)
        Neg(n) == -f[n]
        desc == Tabulate(MaxNumber, Neg)
        \* |freq - mean|, scaled by 45 to stay in the integers
        Dev(n) == Abs(MaxNumber * f[n] - total)
        dev == Tabulate(MaxNumber, Dev)
    IN [top6 |-> SortedHead(desc, t, TopSize),
        bottom10 |-> SortedHead(f, t, BottomSize),
        mid_candidates |-> SortedHead(dev, t, MidSize)]

----------------------------------------------------------------------------
(* The random source.  random.sample(population, k) returns k entries of   *)
(* the population at k different positions.  It is modelled in the form    *)
(* CPython uses for short populations, k picks from a shrinking list: pick *)
(* pool[j] for a random j below the number of entries left, then move the  *)
(* last entry into the hole.  One draw d stands for the random values of   *)
(* one call: each pick takes j = d, or the last entry when fewer than      *)
(* d + 1 are left.                                                         *)

RECURSIVE Sample(_, _, _)
Sample(population, k, d) ==
    LET Pick(pool) ==
          IF k = 0 THEN <<>>
          ELSE LET n == Len(pool)
                   j == Min(d, n - 1) + 1
                   Moved(i) == IF i = j THEN pool[n] ELSE pool[i]
               IN <<pool[j]>> \o Sample(Tabulate(n - 1, Moved), k - 1, d)
    IN Strict(population, Pick)

\* a faulty sample, for comparison: it raises already when k equals the
\* population
CanSampleBelow(pool, k) == k < Len(pool)

\* random.sample raises ValueError when k exceeds the population
CanSample(pool, k) == k <= Len(pool)

RECURSIVE Insert(_, _)
Insert(x, into) ==
    LET Ins(s) == IF s = <<>> THEN <<x>>
                  ELSE IF x <= Head(s) THEN <<x>> \o s
                  ELSE <<Head(s)>> \o Insert(x, Tail(s))
    IN Strict(into, Ins)

\* sorted(...)
RECURSIVE Sorted(_)
Sorted(items) ==
    LET Sort(s) == IF s = <<>> THEN <<>> ELSE Insert(Head(s), Sorted(Tail(s)))
    IN Strict(items, Sort)

AllNumbers == LET Id(i) == i IN Tabulate(MaxNumber, Id)

gen_random_game(d) == Sorted(Sample(AllNumbers, GameSize, d))

\* a faulty mix game, for comparison: the rest is drawn from all numbers,
\* the fixed ones included
gen_mix_game_rest_of_all(fixed_numbers, fixed_count, d1, d2) ==
    LET Rest(fixed) == Sorted(fixed \o Sample(AllNumbers, GameSize - fixed_count, d2))
    IN Strict(Sample(fixed_numbers, fixed_count, d1), Rest)

\* a faulty mix game, for comparison: one number fewer is drawn from the
\* pool and one more from the rest
gen_mix_game_one_short(fixed_numbers, fixed_count, d1, d2) ==
    LET Rest(fixed) ==
          LET NotFixed(n) == n \notin Range(fixed)
              remaining_pool == SelectIdx(AllNumbers, NotFixed)
              rest == Sample(remaining_pool, GameSize - Len(fixed), d2)
          IN Sorted(fixed \o rest)
    IN Strict(Sample(fixed_numbers, fixed_count - 1, d1), Rest)

\* lines 74-78
gen_mix_game(fixed_numbers, fixed_count, d1, d2) ==
    LET Rest(fixed) ==
          LET NotFixed(n) == n \notin Range(fixed)
              remaining_pool == SelectIdx(AllNumbers, NotFixed)
              rest == Sample(remaining_pool, GameSize - fixed_count, d2)
          IN Sorted(fixed \o rest)
    IN Strict(Sample(fixed_numbers, fixed_count, d1), Rest)

\* the eight sample calls of one iteration, in call order
DrawSlots == 1..8

\* the draw vectors of length n whose draws sum to at most b
RECURSIVE Draws(_, _)
Draws(n, b) ==
    IF n = 0 THEN {<<>>}
    ELSE UNION { {<<d>> \o v : v \in Draws(n - 1, b - d)} : d \in 0..b }

DrawVectors(b) == Draws(Cardinality(DrawSlots), b)

\* the game each call of lines 84-88 returns on each draw up to b: the
\* random game at index d + 1, a mix game at indices d1 + 1 and d2 + 1
Outcomes(t6, b10, mid, b) ==
    LET Random(i) == gen_random_game(i - 1)
        MixOf(pool) == LET Row(i) == LET Cell(j) == gen_mix_game(pool, FixedCount, i - 1, j - 1)
                                     IN Tabulate(b + 1, Cell)
                       IN Tabulate(b + 1, Row)
    IN [random |-> Tabulate(b + 1, Random),
        high |-> MixOf(t6), mid |-> MixOf(mid), low |-> MixOf(b10)]

\* lines 83-89: the candidate batch of one iteration, on the draws ds
Candidate(out, ds) ==
    << out.random[ds[1] + 1],
       out.random[ds[2] + 1],
       out.high[ds[3] + 1][ds[4] + 1],
       out.mid[ds[5] + 1][ds[6] + 1],
       out.low[ds[7] + 1][ds[8] + 1] >>

\* a faulty exit test, for comparison: one pair of equal games passes
AllDistinctButOne(gs) == Cardinality(Range(gs)) >= 4

\* len(set(games)) == 5
AllDistinct(gs) == Cardinality(Range(gs)) = 5

PoolsSampleable(t6, b10, mid) ==
    CanSample(t6, FixedCount) /\ CanSample(mid, FixedCount) /\ CanSample(b10, FixedCount)

Element(kind, body) == [kind |-> kind, body |-> body]

----------------------------------------------------------------------------
(* Spreadsheets of the bounded family: a column layout and up to MaxDraws  *)
(* rows, each a run of consecutive numbers with at most one spoiled cell.  *)

ColN(i) == <<"n", ToString(i)>>

Layouts ==
    { [i \in 1..6 |-> ColN(i)],
      [i \in 1..7 |-> IF i = 7 THEN <<"B", "o", "n", "u", "s">> ELSE ColN(i)],
      [i \in 1..8 |-> IF i = 1 THEN <<"d", "a", "t", "e">>
                      ELSE IF i = 8 THEN <<" ", "b", "n", "s", " ">>
                      ELSE ColN(i - 1)],
      [i \in 1..6 |-> IF i = 6 THEN <<"bo", "neo", "seu">> ELSE ColN(i)],
      [i \in 1..5 |-> ColN(i)] }

RowStarts == {1, 41, 46}
Holes == {"none", "text", "zero"}

MkRow(cols, s, h) ==
    LET Cell(i) == IF cols[i] = <<"d", "a", "t", "e">> THEN Txt
                   ELSE IF h = "text" /\ i = 2 THEN Txt
                   ELSE IF h = "zero" /\ i = 3 THEN Num(0)
                   ELSE Num(s + i - 1)
    IN Tabulate(Len(cols), Cell)

RowsOf(cols) ==
    UNION { [1..n -> {MkRow(cols, s, h) : s \in RowStarts, h \in Holes}]
            : n \in 0..MaxDraws }

Workbooks ==
    {Absent} \cup
    UNION { {[exists |-> TRUE, cols |-> cols, rows |-> rows] : rows \in RowsOf(cols)}
            : cols \in Layouts }

PoolsOf(x, t) == build_pools(calc_frequency(load_winning_numbers(x).win), t)

\* The pools the generator is called with: those of a loaded spreadsheet,
\* and the same cut down to two, one or no candidate.
BasePools ==
    { PoolsOf([exists |-> TRUE, cols |-> [i \in 1..6 |-> ColN(i)], rows |-> rows], t) :
        rows \in { <<MkRow([i \in 1..6 |-> ColN(i)], 1, "none")>>,
                   <<MkRow([i \in 1..6 |-> ColN(i)], 41, "none"),
                     MkRow([i \in 1..6 |-> ColN(i)], 41, "zero")>> },
        t \in TieBreaks }

CutPools ==
    UNION { { [p EXCEPT !.top6 = SubSeq(p.top6, 1, k)],
              [p EXCEPT !.mid_candidates = SubSeq(p.mid_candidates, 1, k)],
              [p EXCEPT !.bottom10 = SubSeq(p.bottom10, 1, k)] }
            : p \in BasePools, k \in 0..FixedCount }

GenPools == BasePools \cup CutPools

\* the spreadsheets a page session is run on: none, one with five columns,
\* one with no number in range, one with two draws and a bonus column
AppWorkbooks ==
    { Absent,
      [exists |-> TRUE, cols |-> [i \in 1..5 |-> ColN(i)],
       rows |-> <<MkRow([i \in 1..5 |-> ColN(i)], 1, "none")>>],
      [exists |-> TRUE, cols |-> [i \in 1..6 |-> ColN(i)],
       rows |-> <<MkRow([i \in 1..6 |-> ColN(i)], 46, "none")>>],
      [exists |-> TRUE,
       cols |-> [i \in 1..7 |-> IF i = 7 THEN <<"B", "o", "n", "u", "s">> ELSE ColN(i)],
       rows |-> << MkRow([i \in 1..7 |-> ColN(i)], 1, "none"),
                   MkRow([i \in 1..7 |-> ColN(i)], 41, "zero") >>] }

\* The pools generate_5_games is called with in the specifications below,
\* and for each that holds the numbers to sample the games of Outcomes,
\* computed once.
CalledPools ==
    GenPools \cup {PoolsOf(x, t) : x \in {w \in AppWorkbooks : load_winning_numbers(w).ok},
                                  t \in TieBreaks}

OutcomeTable ==
    { <<p, Outcomes(p.top6, p.bottom10, p.mid_candidates, Max(GenDraws, AppDraws))>> :
        p \in {q \in CalledPools :
                  \A pool \in {q.top6, q.bottom10, q.mid_candidates} : Len(pool) >= FixedCount} }

OutcomesOf(t6, b10, mid) ==
    LET p == [top6 |-> t6, bottom10 |-> b10, mid_candidates |-> mid]
    IN (CHOOSE e \in OutcomeTable : e[1] = p)[2]

\* One iteration of generate_5_games' loop.  A pool too small for the
\* sample makes the call raise out of the handler; otherwise the candidate
\* is returned when its five games differ and redrawn when they do not.
Iterate ==
    /\ pc = "generate"
    /\ IF ~PoolsSampleable(top6, bottom10, mid_candidates)
       THEN /\ pc' = "crashed"
            /\ ui' = Append(ui, Element("exception", "ValueError"))
            /\ UNCHANGED games
       ELSE \E out \in {OutcomesOf(top6, bottom10, mid_candidates)} :
            \E ds \in DrawVectors(budget) :
              \E candidate \in {Candidate(out, ds)} :
                 /\ games' = candidate
                 /\ pc' = IF AllDistinct(candidate) THEN "returned" ELSE "generate"
                 /\ UNCHANGED ui
    /\ UNCHANGED <<excel, csv, win, freq, top6, bottom10, mid_candidates,
                   tie_break, save_toggle, now, clock, budget, procs>>

----------------------------------------------------------------------------
(* The history file.  Its content is a sequence of lines; a line is its    *)
(* comma-separated fields as text, and whether the bytes of a byte order   *)
(* mark precede it (encoding utf-8-sig).                                   *)

NoFile == [exists |-> FALSE, content |-> <<>>]
EmptyFile == [exists |-> TRUE, content |-> <<>>]

HeaderFields == <<"created_at", "strategy", "n1", "n2", "n3", "n4", "n5", "n6">>

labels == <<"RANDOM_1", "RANDOM_2", "HIGH_MIX", "MID_MIX", "LOW_MIX">>

\* datetime.now().strftime("%Y-%m-%d %H:%M:%S"), c seconds into the session
strftime(c) == "2026-11-05 09:00:0" \o ToString(c)

\* faulty rows, for comparison: the last game is left out
RowsOf4(t, gs) ==
    LET Row(i) == <<t, labels[i]>> \o gs[i]
    IN Tabulate(Min(Len(labels), Len(gs)) - 1, Row)

\* line 139: [[now, label, *g] for label, g in zip(labels, games)]
RowsOf5(t, gs) ==
    LET Row(i) == <<t, labels[i]>> \o gs[i]
    IN Tabulate(Min(Len(labels), Len(gs)), Row)

\* a row of the frame as to_csv writes it: the two text columns as they
\* are, the six integer columns in decimal
FormatRow(row) ==
    LET Field(i) == IF i <= 2 THEN row[i] ELSE ToString(row[i])
    IN Tabulate(Len(row), Field)

\* line 99: os.path.exists(CSV_PATH)
Exists(f) == f.exists

\* to_csv opens the file for append, which creates it; the encoder emits
\* the byte order mark only when the file is empty at that moment
OpenAppend(f) == [exists |-> TRUE, content |-> f.content]

AtStart(f) == Len(f.content) = 0

\* a faulty write, for comparison: mode "w", the earlier content is lost
WriteCsvTruncating(f, rows, header, bom) ==
    LET Formatted(i) == FormatRow(rows[i])
        fields == (IF header THEN <<HeaderFields>> ELSE <<>>)
                  \o Tabulate(Len(rows), Formatted)
        Line(i) == [bom |-> bom /\ i = 1, fields |-> fields[i]]
    IN [exists |-> TRUE, content |-> Tabulate(Len(fields), Line)]

\* a write that tests for content again at the time of writing, for
\* comparison: the header goes to an empty file only
WriteCsvHeaderOnce(f, rows, header, bom) ==
    LET Formatted(i) == FormatRow(rows[i])
        fields == (IF header /\ AtStart(f) THEN <<HeaderFields>> ELSE <<>>)
                  \o Tabulate(Len(rows), Formatted)
        Line(i) == [bom |-> bom /\ i = 1, fields |-> fields[i]]
    IN [exists |-> TRUE, content |-> f.content \o Tabulate(Len(fields), Line)]

\* to_csv writes the header line when asked to, then one line per row
WriteCsv(f, rows, header, bom) ==
    LET Formatted(i) == FormatRow(rows[i])
        fields == (IF header THEN <<HeaderFields>> ELSE <<>>)
                  \o Tabulate(Len(rows), Formatted)
        Line(i) == [bom |-> bom /\ i = 1, fields |-> fields[i]]
        lines == Tabulate(Len(fields), Line)
    IN [exists |-> TRUE, content |-> f.content \o lines]

\* lines 94-100, run without interruption
save_history(f, rows) ==
    LET write_header == ~Exists(f)
        opened == OpenAppend(f)
    IN WriteCsv(opened, rows, write_header, AtStart(opened))

\* a batch the generator returns on the pools of a one-draw spreadsheet
SampleBatch ==
    LET p == PoolsOf([exists |-> TRUE, cols |-> [i \in 1..6 |-> ColN(i)],
                      rows |-> <<MkRow([i \in 1..6 |-> ColN(i)], 1, "none")>>],
                     "lower first")
    IN Candidate(Outcomes(p.top6, p.bottom10, p.mid_candidates, 1),
                 <<1, 0, 0, 0, 0, 0, 0, 0>>)

\* the file an earlier session left after one save on an absent file
SavedBefore == save_history(NoFile, RowsOf5("2026-11-04 21:30:00", SampleBatch))

\* the history file a session finds: absent, present without content (an
\* append that failed after the open leaves it so), or written before
HistoryFiles == {NoFile, EmptyFile, SavedBefore}

\* the integer a field parses to, for the decimal texts of 0..45, as an
\* explicit table
IntOf == [s \in {ToString(n) : n \in 0..MaxNumber} |->
            CHOOSE n \in 0..MaxNumber : ToString(n) = s] @@ <<>>

IsIntText(s) == s \in DOMAIN IntOf

ParseInt(s) == IntOf[s]

\* the fields of line i as decoded with utf-8-sig: a mark at the start of
\* the file is dropped, a later one stays as a character of the first field
Decoded(f, i) ==
    LET l == f.content[i]
    IN IF l.bom /\ i > 1 THEN [l.fields EXCEPT ![1] = "<U+FEFF>" \o l.fields[1]]
       ELSE l.fields

\* pd.read_csv(CSV_PATH, encoding="utf-8-sig"): the first line names the
\* columns, every other line is a row; a column reads as integers when all
\* its cells parse as integers, as text otherwise.  An empty file raises.
read_csv(f) ==
    IF Len(f.content) = 0
    THEN [ok |-> FALSE, columns |-> <<>>, rows |-> <<>>]
    ELSE LET n == Len(f.content) - 1
             Text(i) == Decoded(f, i)
             text == Tabulate(n + 1, Text)
             IntColumn(j) == \A i \in 1..n : IsIntText(text[i + 1][j])
             ints == Tabulate(Len(text[1]), IntColumn)
             Row(i) == LET Cell(j) == IF ints[j] THEN ParseInt(text[i + 1][j])
                                      ELSE text[i + 1][j]
                       IN Tabulate(Len(text[i + 1]), Cell)
         IN [ok |-> TRUE, columns |-> text[1], rows |-> Tabulate(n, Row)]

\* hist.tail(50)
TailOf(rows) ==
    IF Len(rows) <= TailRows THEN rows
    ELSE SubSeq(rows, Len(rows) - TailRows + 1, Len(rows))

----------------------------------------------------------------------------
(* The page script, one run per interaction. *)

Waiting == pc \in {"idle", "stopped", "crashed"}

\* "  ".join(map(str, g))
RECURSIVE JoinStr(_)
JoinStr(g) ==
    IF g = <<>> THEN ""
    ELSE IF Len(g) = 1 THEN ToString(g[1])
    ELSE ToString(g[1]) \o "  " \o JoinStr(Tail(g))

\* lines 104-105: a script run starts and renders the title and the caption
Rerun ==
    /\ Waiting
    /\ pc' = "init"
    /\ ui' = <<Element("title", ""), Element("caption", "")>>
    /\ win' = <<>> /\ freq' = <<>>
    /\ top6' = <<>> /\ bottom10' = <<>> /\ mid_candidates' = <<>>
    /\ games' = <<>> /\ now' = ""
    /\ UNCHANGED <<excel, csv, tie_break, save_toggle, clock, budget, procs>>

\* a faulty handler, for comparison: the script goes on after the error
AfterLoadErrorGoesOn == "controls"

\* line 113: st.stop() ends the script run
AfterLoadError == "stopped"

\* lines 107-113: load, count and build the pools, or show the error and stop
TryLoad ==
    /\ pc = "init"
    /\ \E r \in {load_winning_numbers(excel)} :
          IF r.ok
          THEN \E f \in {calc_frequency(r.win)} :
               \E p \in {build_pools(f, tie_break)} :
                  /\ win' = r.win
                  /\ freq' = f
                  /\ top6' = p.top6
                  /\ bottom10' = p.bottom10
                  /\ mid_candidates' = p.mid_candidates
                  /\ pc' = "controls"
                  /\ UNCHANGED ui
          ELSE /\ ui' = Append(ui, Element("error", r.error))
               /\ pc' = AfterLoadError
               /\ UNCHANGED <<win, freq, top6, bottom10, mid_candidates>>
    /\ UNCHANGED <<excel, csv, tie_break, save_toggle, games, now, clock, budget, procs>>

\* lines 115-122: the pools, the checkbox and the button; a click enters
\* the handler
Controls ==
    /\ pc = "controls"
    /\ \E toggle \in BOOLEAN, clicked \in BOOLEAN :
          /\ clicked => clock < MaxRuns
          /\ save_toggle' = toggle
          /\ ui' = ui \o << Element("pools", <<top6, bottom10, mid_candidates>>),
                            Element("checkbox", toggle),
                            Element("button", clicked) >>
          /\ pc' = IF clicked THEN "generate" ELSE "history"
    /\ UNCHANGED <<excel, csv, win, freq, top6, bottom10, mid_candidates, tie_break,
                   games, now, clock, budget, procs>>

\* lines 131-136: the timestamp, then the five labelled games
RenderGames ==
    /\ pc = "returned"
    /\ now' = strftime(clock)
    /\ clock' = clock + 1
    /\ LET Game(i) == [kind |-> "game", label |-> labels[i], body |-> JoinStr(games[i])]
       IN ui' = ui \o <<Element("subheader", "games")>>
                   \o Tabulate(Min(Len(labels), Len(games)), Game)
    /\ pc' = IF save_toggle THEN "save" ELSE "history"
    /\ UNCHANGED <<excel, csv, win, freq, top6, bottom10, mid_candidates, tie_break,
                   save_toggle, games, budget, procs>>

\* the file after a write that failed: of the lines the save would have
\* added, the first k are in the file
Torn(f, saved, k) ==
    [exists |-> TRUE, content |-> SubSeq(saved.content, 1, Len(f.content) + k)]

\* lines 138-141: the rows are appended and the success message shown; the
\* file system may refuse the open, or fail the write after any number of
\* its lines, and the exception leaves the script
SaveRows ==
    /\ pc = "save"
    /\ \E saved \in {save_history(csv, RowsOf5(now, games))} :
       \/ /\ csv' = saved
          /\ ui' = Append(ui, Element("success", ""))
          /\ pc' = "history"
       \/ /\ csv' = csv
          /\ ui' = Append(ui, Element("exception", "OSError on open"))
          /\ pc' = "crashed"
       \/ /\ \E k \in 0..(Len(saved.content) - Len(csv.content) - 1) :
                csv' = Torn(csv, saved, k)
          /\ ui' = Append(ui, Element("exception", "OSError on write"))
          /\ pc' = "crashed"
    /\ UNCHANGED <<excel, win, freq, top6, bottom10, mid_candidates, tie_break,
                   save_toggle, games, now, clock, budget, procs>>

\* lines 143-150: the divider, then the last rows of the history or the
\* note that there is none
ShowHistory ==
    /\ pc = "history"
    /\ \E shown \in {ui \o <<Element("divider", ""), Element("subheader", "history")>>} :
          IF ~Exists(csv)
          THEN ui' = Append(shown, Element("info", "")) /\ pc' = "idle"
          ELSE \E hist \in {read_csv(csv)} :
               IF ~hist.ok
               THEN ui' = Append(shown, Element("exception", "EmptyDataError"))
                    /\ pc' = "crashed"
               ELSE ui' = Append(shown, [kind |-> "dataframe", columns |-> hist.columns,
                                         body |-> TailOf(hist.rows)])
                    /\ pc' = "idle"
    /\ UNCHANGED <<excel, csv, win, freq, top6, bottom10, mid_candidates, tie_break,
                   save_toggle, games, now, clock, budget, procs>>

----------------------------------------------------------------------------
(* Specifications. *)

Unset ==
    /\ win = <<>> /\ freq = <<>>
    /\ save_toggle = TRUE
    /\ games = <<>> /\ now = "" /\ ui = <<>> /\ clock = 0

\* generate_5_games called on given pools
InitGen ==
    /\ Unset
    /\ excel = Absent
    /\ csv = NoFile
    /\ tie_break = "lower first"
    /\ \E p \in GenPools :
          /\ top6 = p.top6
          /\ bottom10 = p.bottom10
          /\ mid_candidates = p.mid_candidates
    /\ pc = "generate"
    /\ budget = GenDraws
    /\ procs = <<>>

NextGen == Iterate

SpecGen == InitGen /\ [][NextGen]_vars

\* a page session: the script has not run yet
Init ==
    /\ Unset
    /\ excel \in AppWorkbooks
    /\ csv \in HistoryFiles
    /\ tie_break \in TieBreaks
    /\ top6 = <<>> /\ bottom10 = <<>> /\ mid_candidates = <<>>
    /\ pc = "idle"
    /\ budget = AppDraws
    /\ procs = <<>>

Next ==
    \/ Rerun
    \/ TryLoad
    \/ Controls
    \/ Iterate
    \/ RenderGames
    \/ SaveRows
    \/ ShowHistory

Spec == Init /\ [][Next]_vars

\* the loader applied to every spreadsheet of the bounded family
InitLoad ==
    /\ Unset
    /\ excel \in Workbooks
    /\ csv = NoFile
    /\ tie_break \in TieBreaks
    /\ top6 = <<>> /\ bottom10 = <<>> /\ mid_candidates = <<>>
    /\ pc = "idle"
    /\ budget = AppDraws
    /\ procs = <<>>

NextLoad == Rerun \/ TryLoad

SpecLoad == InitLoad /\ [][NextLoad]_vars

----------------------------------------------------------------------------
(* Process instances saving at the same time.  Nothing orders the steps of *)
(* save_history in one instance against those of another: the test of      *)
(* line 99, then the open and the write of to_csv in line 100.             *)

Procs == 1..NumProcs

RaceExists(p) ==
    /\ procs[p].pc = "call"
    /\ procs' = [procs EXCEPT ![p].pc = "tested", ![p].write_header = ~Exists(csv)]
    /\ UNCHANGED <<excel, csv, win, freq, top6, bottom10, mid_candidates, tie_break,
                   save_toggle, games, now, ui, pc, clock, budget>>

RaceOpen(p) ==
    /\ procs[p].pc = "tested"
    /\ csv' = OpenAppend(csv)
    /\ procs' = [procs EXCEPT ![p].pc = "opened", ![p].bom = AtStart(csv)]
    /\ UNCHANGED <<excel, win, freq, top6, bottom10, mid_candidates, tie_break,
                   save_toggle, games, now, ui, pc, clock, budget>>

RaceWrite(p) ==
    /\ procs[p].pc = "opened"
    /\ csv' = WriteCsv(csv, procs[p].rows, procs[p].write_header, procs[p].bom)
    /\ procs' = [procs EXCEPT ![p].pc = "done"]
    /\ UNCHANGED <<excel, win, freq, top6, bottom10, mid_candidates, tie_break,
                   save_toggle, games, now, ui, pc, clock, budget>>

\* every instance has rendered its batch and calls save_history; the file
\* is absent, empty, or holds the batch of an earlier save
InitRace ==
    /\ Unset
    /\ excel = Absent
    /\ csv \in HistoryFiles
    /\ tie_break = "lower first"
    /\ top6 = <<>> /\ bottom10 = <<>> /\ mid_candidates = <<>>
    /\ pc = "save"
    /\ budget = AppDraws
    /\ procs \in [Procs -> {[pc |-> "call", write_header |-> FALSE, bom |-> FALSE,
                             rows |-> RowsOf5(strftime(c), SampleBatch)] : c \in 1..2}]

NextRace == \E p \in Procs : RaceExists(p) \/ RaceOpen(p) \/ RaceWrite(p)

SpecRace == InitRace /\ [][NextRace]_vars

----------------------------------------------------------------------------
(* The generator's properties. *)

\* a game: exactly GameSize numbers of 1..45, strictly ascending
IsGame(g) ==
    /\ Len(g) = GameSize
    /\ \A i \in 1..Len(g) : g[i] \in Numbers
    /\ \A i \in 1..(Len(g) - 1) : g[i] < g[i + 1]

\* a batch generate_5_games has returned is held from the return until
\* the next script run
BatchReturned == pc # "generate" /\ games # <<>>

GameElements == SelectSeq(ui, LAMBDA e : e.kind = "game")

\* C1: a returned batch holds exactly 5 games, no two of them the same set
\* of numbers, and the page shows them under the labels RANDOM_1, RANDOM_2,
\* HIGH_MIX, MID_MIX, LOW_MIX in that order; a candidate with two equal
\* games is never returned.
C1_FiveDistinctGames ==
    /\ BatchReturned =>
          /\ Len(games) = 5
          /\ \A i, j \in 1..5 : i < j => Range(games[i]) # Range(games[j])
    /\ GameElements # <<>> =>
          /\ BatchReturned
          /\ Len(GameElements) = 5
          /\ \A i \in 1..5 :
                /\ GameElements[i].label =
                     <<"RANDOM_1", "RANDOM_2", "HIGH_MIX", "MID_MIX", "LOW_MIX">>[i]
                /\ GameElements[i].body = JoinStr(games[i])

\* a batch was returned and rendered, and the page run is past the handler
C1_Witness ==
    /\ pc = "idle"
    /\ Len(GameElements) = 5
    /\ Len(games) = 5

\* C2: every game the generator builds, in a discarded candidate as in a
\* returned batch, is 6 pairwise distinct numbers of 1..45 in strictly
\* ascending order, for pools of 2 or more distinct numbers.
C2_GamesWellFormed ==
    games # <<>> => \A i \in 1..Len(games) : IsGame(games[i])

\* a batch returned on a mix pool of exactly 2 numbers
C2_Witness ==
    /\ pc = "returned"
    /\ Len(games) = 5
    /\ Len(mid_candidates) = 2

PoolCount(g, pool) == Cardinality(Range(g) \cap Range(pool))

\* C3 as claimed: each mix game of a returned batch holds exactly 2 numbers
\* of its pool.
C3_ExactlyTwo ==
    BatchReturned =>
       /\ PoolCount(games[3], top6) = 2
       /\ PoolCount(games[4], mid_candidates) = 2
       /\ PoolCount(games[5], bottom10) = 2

\* C3 amended: each mix game of a returned batch holds at least 2 numbers
\* of its pool, the 2 drawn from it, and 4 other numbers that differ from
\* those 2 but may be members of the pool as well.
C3_AtLeastTwo ==
    BatchReturned =>
       \A s \in 3..5 :
          LET pool == <<top6, mid_candidates, bottom10>>[s - 2]
          IN /\ PoolCount(games[s], pool) >= 2
             /\ PoolCount(games[s], pool) <= Min(GameSize, Len(pool))
             /\ Cardinality(Range(games[s])) = GameSize

\* a returned batch whose LOW_MIX game holds more than 2 numbers of the
\* full low-frequency pool
C3_Witness ==
    /\ BatchReturned
    /\ Len(bottom10) = BottomSize
    /\ PoolCount(games[5], bottom10) > 2

----------------------------------------------------------------------------
(* Termination of the retry loop.  The random source is fair: a draw that *)
(* stays possible is eventually made.                                      *)

EveryPoolHasTwo ==
    Len(top6) >= 2 /\ Len(mid_candidates) >= 2 /\ Len(bottom10) >= 2

\* a batch of five different games can be drawn in this iteration
CanReturn ==
    \E out \in {OutcomesOf(top6, bottom10, mid_candidates)} :
       \E ds \in DrawVectors(budget) : AllDistinct(Candidate(out, ds))

\* the iteration in which the loop returns, and the call that raises.  The
\* first is possible in every state of the loop on pools of 2 or more
\* (CanReturn, the first conjunct of C9), the second in every call on a
\* smaller pool.
ReturnsNow == pc = "generate" /\ EveryPoolHasTwo /\ pc' = "returned"

Raises == pc = "generate" /\ ~EveryPoolHasTwo /\ pc' = "crashed"

FairSpecGen == SpecGen /\ SF_pc(ReturnsNow) /\ WF_pc(Raises)

\* C9: on pools of 2 or more candidates the loop eventually returns; from
\* every iteration a batch without collision can be drawn in that same
\* iteration, the loop exits in the first iteration whose 5 games differ
\* and in no other; the call raises exactly when a mix pool has fewer than
\* 2 candidates, and then no batch is returned.
C9_EventuallyReturns ==
    /\ [](pc = "generate" /\ EveryPoolHasTwo => CanReturn)
    /\ [](pc = "crashed" => ~EveryPoolHasTwo /\ games = <<>>)
    /\ [](~EveryPoolHasTwo => pc # "returned")
    /\ [][pc = "generate" /\ EveryPoolHasTwo =>
            /\ pc' \in {"generate", "returned"}
            /\ pc' = "returned" <=> Cardinality({Range(games'[i]) : i \in 1..5}) = 5]_vars
    /\ (pc = "generate" /\ EveryPoolHasTwo) ~> (pc = "returned")
    /\ (pc = "generate" /\ ~EveryPoolHasTwo) ~> (pc = "crashed")

\* the loop is in a further iteration after a candidate with two equal
\* games was discarded
C9_Witness ==
    /\ pc = "generate"
    /\ EveryPoolHasTwo
    /\ Len(games) = 5
    /\ games[1] = games[2]

----------------------------------------------------------------------------
(* The loader's and the frequency table's properties. *)

ValidCells(w) ==
    Cardinality({rj \in (1..Len(w)) \X (1..GameSize) : w[rj[1]][rj[2]] # NA})

DrawsWithValid(w) ==
    Cardinality({r \in 1..Len(w) : \E j \in 1..GameSize : w[r][j] # NA})

\* C8 as claimed: the table has domain 1..45 and its counts sum to 6 times
\* the number of draws with at least one valid entry.
C8_SixPerDraw ==
    freq # <<>> =>
       /\ DOMAIN freq = Numbers
       /\ SumSeq(freq) = GameSize * DrawsWithValid(win)

\* C8 amended: the table has domain 1..45, and its counts sum to the number
\* of cells of the six winning-number columns that hold a number of 1..45,
\* which is at least the number of draws with a valid entry and at most 6
\* times that number.
C8_OnePerValidCell ==
    freq # <<>> =>
       /\ DOMAIN freq = Numbers
       /\ \A n \in Numbers : freq[n] >= 0
       /\ \A r \in 1..Len(win) : \A j \in 1..GameSize : win[r][j] \in Numbers \cup {NA}
       /\ SumSeq(freq) = ValidCells(win)
       /\ SumSeq(freq) >= DrawsWithValid(win)
       /\ SumSeq(freq) <= GameSize * DrawsWithValid(win)

\* a loaded table in which a draw has a valid entry and a missing one
C8_Witness ==
    /\ freq # <<>>
    /\ SumSeq(freq) < GameSize * DrawsWithValid(win)

----------------------------------------------------------------------------
(* The page's properties. *)

KindsShown == {ui[i].kind : i \in 1..Len(ui)}

Shows(kind, body) == \E i \in 1..Len(ui) : ui[i].kind = kind /\ ui[i].body = body

LoadFails == ~load_winning_numbers(excel).ok

\* C7 as claimed: after a failed initialization nothing but the error
\* message is rendered.
C7_OnlyTheError ==
    pc = "stopped" => KindsShown = {"error"}

\* C7 amended: when initialization fails the script renders the title, the
\* caption and the error message and stops: no pools, controls, games or
\* history are rendered in any run, no generate action runs, and the
\* history file is neither read nor changed.
C7_HaltsAfterTitle ==
    /\ LoadFails =>
          /\ pc \in {"idle", "init", "stopped"}
          /\ KindsShown \subseteq {"title", "caption", "error"}
          /\ games = <<>>
          /\ csv \in HistoryFiles
    /\ pc = "stopped" =>
          /\ LoadFails
          /\ Len(ui) = 3
          /\ ui[1].kind = "title" /\ ui[2].kind = "caption" /\ ui[3].kind = "error"
          /\ ui[3].body = load_winning_numbers(excel).error

\* the run stopped on a spreadsheet that is present but has too few
\* numeric columns
C7_Witness ==
    /\ pc = "stopped"
    /\ excel.exists
    /\ Shows("error", "ValueError: fewer than 6 numeric columns")

Rendered == Len(GameElements)

\* the lines of the history file that carry this run's timestamp
Persisted ==
    IF now = "" THEN 0
    ELSE Cardinality({i \in 1..Len(csv.content) : csv.content[i].fields[1] = now})

AppendFailed == Shows("exception", "OSError on open") \/ Shows("exception", "OSError on write")

\* C5 as claimed: no state has the batch rendered and its append failed.
C5_NeverRenderedAndFailed ==
    ~(Rendered = 5 /\ AppendFailed)

\* C5 amended: a generate action renders all 5 games or none and persists
\* rows only after rendering; it completes fully (the success message is
\* shown exactly when all 5 rows are persisted), or fails in the generator
\* before any rendering and persistence, or fails in the history append
\* after the 5 games were rendered, and then fewer than 5 rows of the batch
\* are persisted and no success message is shown.
C5_FailsBeforeOrAfterRendering ==
    /\ Rendered \in {0, 5}
    /\ Persisted \in 0..5
    /\ Persisted > 0 => Rendered = 5 /\ save_toggle
    /\ "success" \in KindsShown <=> Persisted = 5
    /\ AppendFailed => Rendered = 5 /\ Persisted < 5 /\ pc = "crashed"
    /\ Shows("exception", "ValueError") => Rendered = 0 /\ Persisted = 0
    /\ (pc = "idle" /\ Shows("button", TRUE)) =>
          /\ Rendered = 5
          /\ save_toggle => Persisted = 5

\* the 5 games are on the page, the append of their rows has failed and
\* only some of the rows are in the file
C5_Witness ==
    /\ Rendered = 5
    /\ AppendFailed
    /\ Persisted \in 1..4

DataLines(lines) == SelectSeq(lines, LAMBDA l : l.fields # HeaderFields)

Appended == SubSeq(csv'.content, Len(csv.content) + 1, Len(csv'.content))

C4_RoundTrip ==
    [][ (pc = "save" /\ pc' = "history") =>
          LET before == IF Len(csv.content) = 0 THEN <<>> ELSE read_csv(csv).rows
              after == read_csv(csv')
          IN /\ after.ok
             /\ after.columns = HeaderFields
             /\ \A i \in 2..Len(csv'.content) : csv'.content[i].fields # HeaderFields
             /\ Len(after.rows) = Len(before) + 5
             /\ after.rows = before \o RowsOf5(now, games)
      ]_vars

----------------------------------------------------------------------------
(* Concurrent saves. *)

HeaderLines == {i \in 1..Len(csv.content) : csv.content[i].fields = HeaderFields}

SawAbsent == {p \in Procs : procs[p].write_header}

AllSaved == \A p \in Procs : procs[p].pc = "done"

\* C10: the test for the file and the append are separate steps, so when
\* instances save at the same time each instance that saw the file absent
\* writes the header: once all have saved, the log holds as many header
\* rows as instances saw it absent, 5 data rows per instance, and every
\* header row but one on the first line lies between two data rows; with
\* two such instances that is two header rows among 10 data rows.
C10_HeaderPerObserver ==
    /\ \A p \in Procs : procs[p].pc \in {"opened", "done"} => csv.exists
    /\ (AllSaved /\ SawAbsent # {}) =>
          /\ Cardinality(HeaderLines) = Cardinality(SawAbsent)
          /\ Len(csv.content) = Cardinality(SawAbsent) + 5 * NumProcs
          /\ \A i \in HeaderLines :
                i > 1 => /\ (i - 1) \notin HeaderLines
                         /\ i < Len(csv.content)
                         /\ (i + 1) \notin HeaderLines

\* all instances saw the file absent and have saved: the log holds a
\* header row for each, the later ones between data rows
C10_Witness ==
    /\ AllSaved
    /\ SawAbsent = Procs
    /\ Cardinality(HeaderLines) = NumProcs
    /\ \E i \in HeaderLines : i > 1

====
